---------------------------- MODULE Spec2Model ----------------------------
(***************************************************************************)
(* gitgat: per-author statistics of a git history.                         *)
(*                                                                         *)
(* The model follows src/gitgat/mod.rs (run, collect_oids, Commit, Stats,  *)
(* History) and src/main.rs (main).  The git2 library is the environment:  *)
(* a repository is an input (its commits newest first, each with an author *)
(* name, a summary and the diff against the next commit of the walk), and  *)
(* every fallible git2 call may fail.                                      *)
(*                                                                         *)
(* Rust indexes from 0, TLA+ sequences from 1: oids[i] of the model is     *)
(* oids[i - 1] of the code.  Option<T> is a sequence of length 0 or 1.     *)
(* The u32 counters are plain naturals: the histories of the model stay    *)
(* far below 2^32, where debug and release builds part.                    *)
(***************************************************************************)
EXTENDS Naturals, Sequences, FiniteSets

VARIABLES repo, opts, pc, oids, i, c, line, history, stats, stdout, err

vars == <<repo, opts, pc, oids, i, c, line, history, stats, stdout, err>>

\* The longest commit walk of the model.
MaxCommits == 3

None == <<>>

Some(x) == <<x>>

-----------------------------------------------------------------------------
(* Inputs: paths, diffs, commits, options *)

\* File paths of the modelled diffs, as their characters.
PathSrcX == <<"s", "r", "c", "/", "x">>

PathSrcZ == <<"s", "r", "c", "/", "z">>

PathSrcB == <<"s", "r", "c", "/", "b">>

PathVendorY == <<"v", "e", "n", "d", "o", "r", "/", "y">>

PathDocsX == <<"d", "o", "c", "s", "/", "x">>

PathDocs2X == <<"d", "o", "c", "s", "2", "/", "x">>

\* Values of -e/--exclude, as their characters.
DirVendor == <<"v", "e", "n", "d", "o", "r">>

DirDocs == <<"d", "o", "c", "s">>

DirDocsSlash == <<"d", "o", "c", "s", "/">>

DirSrc == <<"s", "r", "c">>

\* n diff lines of one file with one origin character.
Lines(path, origin, n) == [k \in 1..n |-> [path |-> path, origin |-> origin]]

\* +10/-2 under src/x.
DiffB == Lines(PathSrcX, "+", 10) \o Lines(PathSrcX, "-", 2)

\* +3/-1 under vendor/y, +1/-0 under src/z.
DiffC == Lines(PathVendorY, "+", 3) \o Lines(PathVendorY, "-", 1)
             \o Lines(PathSrcZ, "+", 1)

\* +1/-0 under docs2/x, +0/-4 under docs/x, a binary file and a context
\* line under src/z.
DiffD == Lines(PathDocs2X, "+", 1) \o Lines(PathDocsX, "-", 4)
             \o Lines(PathSrcB, "B", 1) \o Lines(PathSrcZ, " ", 1)

\* What git2 reports of a commit besides its author: its summary (absent
\* when the message is not UTF-8) and its diff against the next commit of
\* the walk.
Shapes ==
    { [summary |-> Some("B"), diff |-> DiffB],
      [summary |-> Some("C"), diff |-> DiffC],
      [summary |-> None, diff |-> DiffD] }

\* Author names on record; None when the name is not UTF-8.
AuthorNames == {Some("Alice"), Some("alice"), None}

Commits == [author : AuthorNames, shape : Shapes]

\* The AUTHOR argument.
Targets == {"Alice"}

\* The --exclude argument.
ExclusionSets == {<<>>, <<DirVendor>>, <<DirVendor, DirDocs>>}

-----------------------------------------------------------------------------
(* std::path::Path::starts_with, as run() uses it *)

\* The pieces of s between its separators, empty ones included.
RECURSIVE Pieces(_, _, _)
Pieces(s, cur, acc) ==
    IF s = <<>> THEN Append(acc, cur)
    ELSE IF Head(s) = "/" THEN Pieces(Tail(s), <<>>, Append(acc, cur))
    ELSE Pieces(Tail(s), Append(cur, Head(s)), acc)

\* Path::components: a leading separator is the root component, repeated
\* and trailing separators are dropped, and so is "." anywhere but at the
\* start of a relative path.
Components(s) ==
    LET pieces == Pieces(s, <<>>, <<>>)
        hasRoot == s # <<>> /\ Head(s) = "/"
        Normal(x) == x # <<>> /\ x # <<".">>
    IN  (IF hasRoot THEN << <<"/">> >> ELSE <<>>)
        \o (IF ~hasRoot /\ Head(pieces) = <<".">> THEN << <<".">> >> ELSE <<>>)
        \o SelectSeq(pieces, Normal)

\* Path::starts_with(base): base's components are the first components of
\* the path, each compared whole.
starts_with(path, base) ==
    LET p == Components(path)
        b == Components(base)
    IN  Len(b) <= Len(p) /\ SubSeq(p, 1, Len(b)) = b

-----------------------------------------------------------------------------
(* The diff line callback of run() *)

\* The guard with str::starts_with in place of Path::starts_with.
Excluded_str(path, excluded_dirs) ==
    \E k \in 1..Len(excluded_dirs) :
        /\ Len(excluded_dirs[k]) <= Len(path)
        /\ SubSeq(path, 1, Len(excluded_dirs[k])) = excluded_dirs[k]

\* The guard with all() in place of any().
Excluded_all(path, excluded_dirs) ==
    \A k \in 1..Len(excluded_dirs) : starts_with(path, excluded_dirs[k])

\* The guard of the callback: the line's file is in an excluded directory.
Excluded(path, excluded_dirs) ==
    \E k \in 1..Len(excluded_dirs) : starts_with(path, excluded_dirs[k])

\* The callback with a binary file's line counted as an addition.
LineCallback_binary(commit, path, origin, excluded_dirs) ==
    IF Excluded(path, excluded_dirs) THEN commit
    ELSE IF origin \in {"+", "B"} THEN [commit EXCEPT !.additions = @ + 1]
    ELSE IF origin = "-" THEN [commit EXCEPT !.deletions = @ + 1]
    ELSE commit

\* The callback without its guard.
LineCallback_unguarded(commit, path, origin, excluded_dirs) ==
    IF origin = "+" THEN [commit EXCEPT !.additions = @ + 1]
    ELSE IF origin = "-" THEN [commit EXCEPT !.deletions = @ + 1]
    ELSE commit

\* One call of the callback on the record being built.
LineCallback(commit, path, origin, excluded_dirs) ==
    IF Excluded(path, excluded_dirs) THEN commit
    ELSE IF origin = "+" THEN [commit EXCEPT !.additions = @ + 1]
    ELSE IF origin = "-" THEN [commit EXCEPT !.deletions = @ + 1]
    ELSE commit

\* diff.foreach(..): the callback on every line of the diff, in order.
RECURSIVE foreach(_, _, _)
foreach(diff, commit, excluded_dirs) ==
    IF diff = <<>> THEN commit
    ELSE foreach(Tail(diff),
                 LineCallback(commit, Head(diff).path, Head(diff).origin,
                              excluded_dirs),
                 excluded_dirs)

-----------------------------------------------------------------------------
(* struct Commit *)

Commit_new(hash, summary) ==
    [hash |-> hash, summary |-> summary, additions |-> 0, deletions |-> 0]

\* gc is what git2 reports of the commit with object id oid.
new_from_commit(oid, gc) ==
    Commit_new(oid,
               IF gc.shape.summary = None THEN "<unknown summary>"
               ELSE gc.shape.summary[1])

Max(a, b) == IF a >= b THEN a ELSE b

size(commit) == Max(commit.additions, commit.deletions)

-----------------------------------------------------------------------------
(* struct Stats, struct History *)

Stats_default == [commits |-> 0, additions |-> 0, deletions |-> 0, top |-> None]

\* update with >= in place of >.
update_ge(self, commit) ==
    [commits |-> self.commits + 1,
     additions |-> self.additions + commit.additions,
     deletions |-> self.deletions + commit.deletions,
     top |-> IF self.top = None THEN Some(commit)
             ELSE IF size(commit) >= size(self.top[1]) THEN Some(commit)
             ELSE self.top]

\* update with = in place of += on deletions.
update_assign(self, commit) ==
    [commits |-> self.commits + 1,
     additions |-> self.additions + commit.additions,
     deletions |-> commit.deletions,
     top |-> IF self.top = None THEN Some(commit)
             ELSE IF size(commit) > size(self.top[1]) THEN Some(commit)
             ELSE self.top]

update(self, commit) ==
    [commits |-> self.commits + 1,
     additions |-> self.additions + commit.additions,
     deletions |-> self.deletions + commit.deletions,
     top |-> IF self.top = None THEN Some(commit)
             ELSE IF size(commit) > size(self.top[1]) THEN Some(commit)
             ELSE self.top]

\* self.commits.iter().fold(Stats::default(), Stats::update)
RECURSIVE fold(_, _)
fold(commits, acc) ==
    IF commits = <<>> THEN acc
    ELSE fold(Tail(commits), update(acc, Head(commits)))

History_stats(commits) == fold(commits, Stats_default)

-----------------------------------------------------------------------------
(* The state after main() has parsed its arguments *)

\* All walks of at most n commits, newest first.
RECURSIVE Walks(_)
Walks(n) ==
    IF n = 0 THEN {<<>>}
    ELSE LET shorter == Walks(n - 1)
         IN  shorter \cup {Append(w, g) : w \in {v \in shorter : Len(v) = n - 1},
                                          g \in Commits}

Init ==
    /\ repo \in [commits : Walks(MaxCommits)]
    /\ opts \in [author : Targets, excluded_dirs : ExclusionSets]
    /\ pc = "open"
    /\ oids = <<>>
    /\ i = 1
    /\ c = None
    /\ line = 1
    /\ history = <<>>
    /\ stats = Stats_default
    /\ stdout = <<>>
    /\ err = ""

\* A git2 call returns Err: `?` returns it from run(), and the unwrap() of
\* main() panics on it.
Abort(what) ==
    /\ pc' = "aborted"
    /\ err' = what

\* The commit the repository holds under an object id.
find_commit(oid) == repo.commits[oid]

\* The comparison of author names without regard to case.
author_differs_nocase(gc, author) ==
    LET Lower(name) == IF name = "Alice" THEN "alice" ELSE name
    IN  IF gc.author = None THEN TRUE
        ELSE Lower(gc.author[1]) # Lower(author)

\* commit.author().name() != Some(opts.author): a comparison of
\* Option<&str>, exact on the bytes of the name.
author_differs(gc, author) == gc.author # Some(author)

\* The diff line callback is called on lines[line] of this diff.
CurrentDiff == find_commit(oids[i]).shape.diff

-----------------------------------------------------------------------------
(* run(), step by step *)

\* git2::Repository::open(opts.repo)?
Open ==
    /\ pc = "open"
    /\ \/ pc' = "collect" /\ UNCHANGED err
       \/ Abort("git: open")
    /\ UNCHANGED <<repo, opts, oids, i, c, line, history, stats, stdout>>

\* collect_oids(&repo)?  HEAD of a repository without commits is unborn, and
\* push_head() fails on it; otherwise the walk yields every commit, newest
\* first.  An object id is the commit's place in that walk.
CollectOids ==
    /\ pc = "collect"
    /\ \/ /\ Len(repo.commits) > 0
          /\ oids' = [k \in 1..Len(repo.commits) |-> k]
          /\ pc' = "loop"
          /\ UNCHANGED err
       \/ Abort("git: revwalk") /\ UNCHANGED oids
    /\ UNCHANGED <<repo, opts, i, c, line, history, stats, stdout>>

\* repo.find_commit(oids[i])? fails.
FindCommitFails ==
    /\ pc = "loop"
    /\ i <= Len(oids)
    /\ Abort("git: find_commit")
    /\ UNCHANGED <<repo, opts, oids, i, c, line, history, stats, stdout>>

\* if commit.author().name() != Some(opts.author) { continue; }
SkipCommit ==
    /\ pc = "loop"
    /\ i <= Len(oids)
    /\ author_differs(find_commit(oids[i]), opts.author)
    /\ i' = i + 1
    /\ UNCHANGED <<repo, opts, pc, oids, c, line, history, stats, stdout, err>>

\* oids[i + 1] on the last commit of the walk: the index is out of bounds,
\* and the thread panics.
PrevOutOfBounds ==
    /\ pc = "loop"
    /\ i <= Len(oids)
    /\ ~author_differs(find_commit(oids[i]), opts.author)
    /\ i + 1 > Len(oids)
    /\ pc' = "panicked"
    /\ err' = "index out of bounds"
    /\ UNCHANGED <<repo, opts, oids, i, c, line, history, stats, stdout>>

\* repo.find_commit(oids[i + 1])?, a tree()? or diff_tree_to_tree(..)? fails.
DiffFails ==
    /\ pc = "loop"
    /\ i <= Len(oids)
    /\ ~author_differs(find_commit(oids[i]), opts.author)
    /\ i + 1 <= Len(oids)
    /\ Abort("git: diff")
    /\ UNCHANGED <<repo, opts, oids, i, c, line, history, stats, stdout>>

\* The diff is computed, c is created, and diff.foreach starts.
StartDiff ==
    /\ pc = "loop"
    /\ i <= Len(oids)
    /\ ~author_differs(find_commit(oids[i]), opts.author)
    /\ i + 1 <= Len(oids)
    /\ c' = Some(new_from_commit(oids[i], find_commit(oids[i])))
    /\ line' = 1
    /\ pc' = "foreach"
    /\ UNCHANGED <<repo, opts, oids, i, history, stats, stdout, err>>

\* diff.foreach calls the line callback on the next line of the diff.
DiffLine ==
    /\ pc = "foreach"
    /\ line <= Len(CurrentDiff)
    /\ c' = Some(LineCallback(c[1], CurrentDiff[line].path,
                              CurrentDiff[line].origin, opts.excluded_dirs))
    /\ line' = line + 1
    /\ UNCHANGED <<repo, opts, pc, oids, i, history, stats, stdout, err>>

\* diff.foreach(..)? fails.
ForeachFails ==
    /\ pc = "foreach"
    /\ line > Len(CurrentDiff)
    /\ Abort("git: foreach")
    /\ UNCHANGED <<repo, opts, oids, i, c, line, history, stats, stdout>>

\* history.commits.push(c), and the loop goes on.
PushCommit ==
    /\ pc = "foreach"
    /\ line > Len(CurrentDiff)
    /\ history' = Append(history, c[1])
    /\ c' = None
    /\ i' = i + 1
    /\ pc' = "loop"
    /\ UNCHANGED <<repo, opts, oids, line, stats, stdout, err>>

\* let stats = history.stats();
ComputeStats ==
    /\ pc = "loop"
    /\ i > Len(oids)
    /\ stats' = History_stats(history)
    /\ pc' = "print_commits"
    /\ UNCHANGED <<repo, opts, oids, i, c, line, history, stdout, err>>

\* println!(fmt, arg), then on to the next statement.
Println(fmt, arg, next) ==
    /\ stdout' = Append(stdout, [fmt |-> fmt, arg |-> arg])
    /\ pc' = next
    /\ UNCHANGED <<repo, opts, oids, i, c, line, history, stats, err>>

PrintCommits ==
    /\ pc = "print_commits"
    /\ Println(" {} commits", stats.commits, "print_additions")

PrintAdditions ==
    /\ pc = "print_additions"
    /\ Println("+{}", stats.additions, "print_deletions")

PrintDeletions ==
    /\ pc = "print_deletions"
    /\ Println("-{}", stats.deletions, "print_hash")

\* stats.top.unwrap() on None panics.
UnwrapNone ==
    /\ pc = "print_hash"
    /\ stats.top = None
    /\ pc' = "panicked"
    /\ err' = "called Option::unwrap() on a None value"
    /\ UNCHANGED <<repo, opts, oids, i, c, line, history, stats, stdout>>

PrintHash ==
    /\ pc = "print_hash"
    /\ stats.top # None
    /\ Println("Biggest commit {}", stats.top[1].hash, "print_size")

PrintSize ==
    /\ pc = "print_size"
    /\ Println("Biggest commit {}", size(stats.top[1]), "print_summary")

\* The last line, and Ok(()): main() returns and the process exits with 0.
PrintSummary ==
    /\ pc = "print_summary"
    /\ Println("Biggest commit {}", stats.top[1].summary, "ok")

Next ==
    \/ Open
    \/ CollectOids
    \/ FindCommitFails
    \/ SkipCommit
    \/ PrevOutOfBounds
    \/ DiffFails
    \/ StartDiff
    \/ DiffLine
    \/ ForeachFails
    \/ PushCommit
    \/ ComputeStats
    \/ PrintCommits
    \/ PrintAdditions
    \/ PrintDeletions
    \/ UnwrapNone
    \/ PrintHash
    \/ PrintSize
    \/ PrintSummary

Spec == Init /\ [][Next]_vars

-----------------------------------------------------------------------------
(* Vocabulary of the properties *)

\* The author name on record is the target, character for character.
Qualifies(gc) == gc.author # None /\ gc.author[1] = opts.author

\* history.stats() has been computed.
Computed ==
    \/ pc \in {"print_commits", "print_additions", "print_deletions",
               "print_hash", "print_size", "print_summary", "ok"}
    \/ pc = "panicked" /\ err = "called Option::unwrap() on a None value"

\* The run has ended without Ok(()).
Failed == pc \in {"aborted", "panicked"}

\* max(additions, deletions) of a record.
SizeOf(r) == IF r.additions >= r.deletions THEN r.additions ELSE r.deletions

RECURSIVE SumAdditions(_)
SumAdditions(records) ==
    IF records = <<>> THEN 0
    ELSE Head(records).additions + SumAdditions(Tail(records))

RECURSIVE SumDeletions(_)
SumDeletions(records) ==
    IF records = <<>> THEN 0
    ELSE Head(records).deletions + SumDeletions(Tail(records))

\* The first record of the greatest size among records[1..k].
FirstLargest(records, k) ==
    CHOOSE j \in 1..k :
        /\ \A m \in 1..k : SizeOf(records[m]) <= SizeOf(records[j])
        /\ \A m \in 1..(j - 1) : SizeOf(records[m]) < SizeOf(records[j])

-----------------------------------------------------------------------------
(* C1, C2, C7: the ways a run ends *)

\* C1: when no commit of the walk is by the target author, the run does not
\* fail on the absent largest commit: it never panics, and once the totals
\* are computed they are zero with no largest commit.
C1_EmptyResultIsNormal ==
    (\A k \in 1..Len(repo.commits) : ~Qualifies(repo.commits[k]))
        => /\ pc # "panicked"
           /\ Computed => stats = Stats_default

\* C2: the last commit of the walk is never the current commit of a pair:
\* whoever wrote it, the loop passes it without a record and without a
\* panic.
C2_RootSilentlySkipped ==
    (pc = "panicked" => i > Len(oids)) /\ (pc = "foreach" => i < Len(oids))

\* C7: a run that ends without Ok(()) has printed no line of the aggregate.
C7_NoPartialOutput == Failed => stdout = <<>>

-----------------------------------------------------------------------------
(* C3, C4: the fold *)

\* C3: the fold of history.stats(), after any non-empty prefix of the
\* records in walk order, holds as largest commit a record of the greatest
\* size, and the first such record; so do the statistics run() prints.
C3_LargestFirstSeenWins ==
    Computed
        => /\ \A k \in 1..Len(history) :
                  History_stats(SubSeq(history, 1, k)).top
                      = Some(history[FirstLargest(history, k)])
           /\ history # <<>>
                  => stats.top
                         = Some(history[FirstLargest(history, Len(history))])

\* Two records of equal size and different counts were folded, and the
\* first of them is the largest.
C3_Witness ==
    /\ Computed
    /\ Len(history) = 2
    /\ SizeOf(history[1]) = SizeOf(history[2])
    /\ history[1].additions # history[2].additions
    /\ stats.top = Some(history[1])

\* C4: in the fold of history.stats(), after any prefix of the records,
\* commits is the number of records folded, additions and deletions are
\* their sums, and there is no largest commit exactly when nothing was
\* folded; the statistics run() prints are the fold of one record per
\* commit of the target author.
C4_AggregateInvariant ==
    Computed
        => /\ \A k \in 0..Len(history) :
                  LET folded == SubSeq(history, 1, k)
                      st == History_stats(folded)
                  IN  /\ st.commits = k
                      /\ st.additions = SumAdditions(folded)
                      /\ st.deletions = SumDeletions(folded)
                      /\ (st.top = None) <=> (st.commits = 0)
           /\ stats = History_stats(history)
           /\ stats.commits
                  = Cardinality({k \in 1..Len(repo.commits) :
                                     Qualifies(repo.commits[k])})

\* Two records with additions and deletions were folded.
C4_Witness ==
    /\ Computed
    /\ stats.commits = 2
    /\ history[1].additions > 0 /\ history[2].additions > 0
    /\ history[1].deletions > 0 /\ history[2].deletions > 0

-----------------------------------------------------------------------------
(* C5, C6: what the line callback does with one line *)

\* The line the callback was last called on.
Last == CurrentDiff[line - 1]

\* This step is a call of the callback.
CallbackStep == pc = "foreach" /\ line' = line + 1

\* prefix is a prefix of s, character by character.
RawPrefix(prefix, s) ==
    Len(prefix) <= Len(s) /\ SubSeq(s, 1, Len(prefix)) = prefix

\* The components of prefix are the first components of those of s.
ComponentPrefix(prefix, s) ==
    LET a == Components(prefix)
        b == Components(s)
    IN  /\ Len(a) <= Len(b)
        /\ \A k \in 1..Len(a) : a[k] = b[k]

Dirs == {opts.excluded_dirs[k] : k \in 1..Len(opts.excluded_dirs)}

\* C5, as claimed: an added or deleted line is left uncounted exactly when
\* the text of its path starts with the text of a configured prefix.
C5_RawStringPrefix ==
    [][(CallbackStep /\ CurrentDiff[line].origin \in {"+", "-"})
           => ((c' = c)
                  <=> \E d \in Dirs : RawPrefix(d, CurrentDiff[line].path))]_vars

\* C5, amended: an added or deleted line is left uncounted exactly when the
\* components of its path start with the components of a configured prefix;
\* under the prefix "docs" a line of docs2/x is counted and a line of docs/x
\* is not.
C5_ComponentPrefix ==
    [][(CallbackStep /\ CurrentDiff[line].origin \in {"+", "-"})
           => /\ (c' = c) <=> \E d \in Dirs :
                                  ComponentPrefix(d, CurrentDiff[line].path)
              /\ (DirDocs \in Dirs /\ CurrentDiff[line].path = PathDocs2X)
                     => c' # c
              /\ (DirDocs \in Dirs /\ CurrentDiff[line].path = PathDocsX)
                     => c' = c]_vars

\* With "docs" excluded, the added line of docs2/x has been counted and the
\* deleted lines of docs/x have not.
C5_Witness ==
    /\ pc = "foreach"
    /\ DirDocs \in Dirs
    /\ line > 2
    /\ Last.path = PathDocsX
    /\ CurrentDiff[1].path = PathDocs2X
    /\ c[1].additions = 1
    /\ c[1].deletions = 0

\* C6, as claimed: every line of a binary file changes the statistics being
\* computed (it increments a counter of them).
C6_BinaryLinesCounted ==
    [][(CallbackStep /\ CurrentDiff[line].origin = "B")
           => <<c, history, stats>>' # <<c, history, stats>>]_vars

\* C6, amended: a line that is neither an addition nor a deletion changes
\* nothing of the statistics: no record, no total, and no other counter.
C6_OtherLinesIgnored ==
    [][(CallbackStep /\ CurrentDiff[line].origin \notin {"+", "-"})
           => <<c, history, stats>>' = <<c, history, stats>>]_vars

\* The callback has been called on a line of a binary file that is not
\* excluded.
C6_Witness ==
    /\ pc = "foreach"
    /\ line > 1
    /\ Last.origin = "B"
    /\ \A d \in Dirs : ~ComponentPrefix(d, Last.path)

-----------------------------------------------------------------------------
(* C8, C9: the record of a commit *)

\* The diff the record r was built from.
DiffOf(r) == find_commit(r.hash).shape.diff

\* The lines with this origin among the first n of a diff whose path starts,
\* component by component, with no configured prefix.
Retained(diff, n, origin) ==
    {k \in 1..n : /\ diff[k].origin = origin
                  /\ \A d \in Dirs : ~ComponentPrefix(d, diff[k].path)}

\* One more prefix for --exclude; the last is the empty string.
ExtraDirs == {DirVendor, DirDocs, DirDocsSlash, DirSrc, <<>>}

\* The record r of the same commit under another exclusion set.
Under(r, excluded_dirs) ==
    foreach(DiffOf(r), Commit_new(r.hash, r.summary), excluded_dirs)

\* The totals of the same history under another exclusion set.
TotalsUnder(excluded_dirs) ==
    History_stats([k \in 1..Len(history) |-> Under(history[k], excluded_dirs)])

\* The callback has been called on every line of the diff: c is the record
\* that is pushed.
RecordComplete == pc = "foreach" /\ line > Len(CurrentDiff)

\* a has no more additions and no more deletions than b, and no greater
\* maximum of the two.
NoMore(a, b) ==
    /\ a.additions <= b.additions
    /\ a.deletions <= b.deletions
    /\ SizeOf(a) <= SizeOf(b)

\* C8: with one more prefix excluded, no record has more additions, more
\* deletions or a greater size, and the totals are no greater.  A record is
\* looked at when it is complete, the totals when they are computed;
\* neither changes afterwards.
C8_ExclusionMonotone ==
    /\ RecordComplete
           => \A p \in ExtraDirs :
                  NoMore(Under(c[1], Append(opts.excluded_dirs, p)), c[1])
    /\ pc = "print_commits"
           => \A p \in ExtraDirs :
                  NoMore(TotalsUnder(Append(opts.excluded_dirs, p)), stats)

\* One more prefix makes a record, and the total, strictly smaller.
C8_Witness ==
    /\ pc = "print_commits"
    /\ Len(history) = 2
    /\ \E p \in ExtraDirs :
           LET more == Append(opts.excluded_dirs, p)
           IN  /\ Under(history[1], more).additions < history[1].additions
               /\ Under(history[2], more) = history[2]
               /\ TotalsUnder(more).additions < stats.additions

\* Alice wrote C (+3/-1 under vendor/y, +1/-0 under src/z) on top of B
\* (+10/-2 under src/x) on top of the root A, and "vendor" is excluded.
Scenario ==
    /\ Len(repo.commits) = 3
    /\ repo.commits[1] = [author |-> Some("Alice"),
                          shape |-> [summary |-> Some("C"), diff |-> DiffC]]
    /\ repo.commits[2] = [author |-> Some("Alice"),
                          shape |-> [summary |-> Some("B"), diff |-> DiffB]]
    /\ opts = [author |-> "Alice", excluded_dirs |-> <<DirVendor>>]

\* C9: the additions and deletions of a record, when it is complete and
\* when it is folded, are the numbers of added and deleted lines of the
\* commit's diff against its predecessor in the walk whose path is not
\* excluded; and the scenario A -> B -> C gives 2 commits, +11, -2 and B as
\* the largest.
C9_RecordCounts ==
    /\ RecordComplete
           => /\ c[1].additions
                     = Cardinality(Retained(CurrentDiff, Len(CurrentDiff), "+"))
              /\ c[1].deletions
                     = Cardinality(Retained(CurrentDiff, Len(CurrentDiff), "-"))
    /\ pc = "print_commits"
           => \A k \in 1..Len(history) :
                  LET diff == DiffOf(history[k])
                  IN  /\ history[k].additions
                            = Cardinality(Retained(diff, Len(diff), "+"))
                      /\ history[k].deletions
                            = Cardinality(Retained(diff, Len(diff), "-"))
    /\ (Scenario /\ Computed)
           => /\ stats.commits = 2
              /\ stats.additions = 11
              /\ stats.deletions = 2
              /\ stats.top # None
              /\ stats.top[1].hash = oids[2]
    /\ (Scenario /\ pc = "ok")
           => stdout = << [fmt |-> " {} commits", arg |-> 2],
                          [fmt |-> "+{}", arg |-> 11],
                          [fmt |-> "-{}", arg |-> 2],
                          [fmt |-> "Biggest commit {}", arg |-> oids[2]],
                          [fmt |-> "Biggest commit {}", arg |-> 10],
                          [fmt |-> "Biggest commit {}", arg |-> "B"] >>

\* The scenario has run to its end.
C9_Witness == Scenario /\ pc = "ok"

-----------------------------------------------------------------------------
(* C10: the author filter *)

\* C10: the records are those of the commits the loop has passed whose
\* author name is the target, character for character, in walk order: a
\* commit of another name, or of no name, adds no record.
C10_AuthorFilter ==
    LET Kept(oid) == Qualifies(find_commit(oid))
    IN  /\ [k \in 1..Len(history) |-> history[k].hash]
               = SelectSeq(SubSeq(oids, 1, i - 1), Kept)
        /\ pc = "foreach" => Kept(oids[i])

\* The loop has passed a commit by "alice", one by "Alice" and one without
\* an author name, and kept the second.
C10_Witness ==
    /\ Computed
    /\ Len(repo.commits) = 3
    /\ repo.commits[1].author = Some("alice")
    /\ repo.commits[2].author = Some("Alice")
    /\ repo.commits[3].author = None
    /\ Len(history) = 1
    /\ history[1].hash = oids[2]

=============================================================================
